---- MODULE Spec2Model ----
(***************************************************************************)
(* Model of the resilient API access layer of the analytics modules:       *)
(*   FacebookRateLimiter                     facebook_analytics.py 15-51   *)
(*   FacebookAnalytics._make_request_with_retry              101-176       *)
(*   _get_cached_data / _set_cached_data                     182-192       *)
(*   the cached fetch operations and their cache keys        194-477       *)
(*   get_follower_count_trend                                231-337       *)
(*   InstagramAnalytics.get_follower_count_trend   instagram_analytics.py  *)
(*                                                            90-181       *)
(*                                                                         *)
(* Durations are integers in milliseconds (1.0 s == 1000).  The float      *)
(* products min_interval * 1.5 and min_interval * 0.9 are computed in      *)
(* fixed point, rounded down to the millisecond.                           *)
(*                                                                         *)
(* The limiter reads last_call_time only through the difference            *)
(* time.time() - last_call_time (line 28).  The model keeps that           *)
(* difference, since_last_call, instead of the two absolute timestamps,    *)
(* and saturates it at the ceiling of min_interval: every larger value     *)
(* takes the same branch of wait_if_needed.                                *)
(***************************************************************************)
EXTENDS Integers, Sequences, FiniteSets, TLC

VARIABLES
    rate_limiter,   \* FacebookRateLimiter fields: min_interval, rate_limit_errors, since_last_call
    spacing,        \* time between the last two call times recorded by wait_if_needed
    wait_time,      \* value returned by the latest handle_rate_limit_error (of this get)
    wait_attempt,   \* attempt argument of the latest handle_rate_limit_error (-1: none yet)
    pc,             \* position of the caller of _make_request_with_retry
    max_retries,    \* argument of the running / last get
    attempt,        \* loop variable of the running get
    outcomes,       \* class of the upstream outcome of every attempt of the running / last get
    httpCalls,      \* number of self._session.get calls of the running / last get
    rlHandled,      \* attempt indices passed to handle_rate_limit_error by this get
    backoffSleeps,  \* number of backoff time.sleep calls made by this get
    successUpdates, \* number of times this get applied the success update (lines 152-153)
    sent,           \* JSON body of the latest clean upstream response
    result,         \* return value of the last get
    logged,         \* category of the last logger.error of this get
    now,            \* time.time() as read by the cache
    cache,          \* self._cache: key -> (timestamp, data), or Absent
    written,        \* per key, time and payload of the latest _set_cached_data (at = -1: never)
    readKey,        \* key of the latest _get_cached_data
    readAt,         \* time of the latest _get_cached_data
    readResult,     \* value returned by the latest _get_cached_data
    facade,         \* the latest fetch operation of a facade: what it was and what it did
    keyreq,         \* two requests and the cache keys built for them
    trend,          \* the latest get_follower_count_trend: its inputs and what it returned
    best,           \* the latest get_best_times: the posts and the buckets returned
    media,          \* the running get_media_insights: pages, workers, results
    pages           \* the latest page token resolution and what its caller did

limVars   == <<rate_limiter, spacing, wait_time, wait_attempt>>
getVars   == <<pc, max_retries, attempt, outcomes, httpCalls, rlHandled,
               backoffSleeps, successUpdates, sent, result, logged>>
cacheVars == <<now, cache, written, readKey, readAt, readResult>>
auxVars   == <<best, media, pages>>
pureVars  == <<facade, keyreq, trend, auxVars>>
vars      == <<limVars, getVars, cacheVars, pureVars>>

----------------------------------------------------------------------------
(* Bounds of the model *)

MaxRetries == 3      \* largest max_retries argument
MaxErrors == 4       \* cap on rate_limit_errors
MaxAttemptArg == 7   \* largest attempt index handed to handle_rate_limit_error directly
MaxClock == 4        \* the cache clock runs up to MaxClock * 100 s
MaxOps == 3          \* number of facade fetch operations in one run
MaxMetrics == 2      \* metrics in one request
MaxLen == 3          \* values in one upstream insights answer
MaxDays == 3         \* largest days argument of the Instagram trend
MaxPosts == 2        \* posts handed to get_best_times
MaxPages == 2        \* pages in the accounts listing
MaxLimit == 2        \* largest limit argument of get_media_insights
MaxPageRequests == 4 \* page requests of one get_media_insights followed

----------------------------------------------------------------------------
(* Helpers *)

Min(a, b) == IF a < b THEN a ELSE b
Max(a, b) == IF a > b THEN a ELSE b

RECURSIVE Pow(_, _)
Pow(b, e) == IF e = 0 THEN 1 ELSE b * Pow(b, e - 1)

Sec(n) == n * 1000

None == "None"

----------------------------------------------------------------------------
(* FacebookRateLimiter *)

InitialMinInterval == 1000   \* self.min_interval = 1.0
backoff_multiplier == 2      \* self.backoff_multiplier = 2
max_backoff == 60000         \* self.max_backoff = 60
MaxInterval == 5000          \* min(5.0, ...)
MinIntervalFloor == 1000     \* max(1.0, ...)
RequestTimeout == 15000      \* timeout=15

Jitters == {0, 1000}         \* random.uniform(0, 1): both ends of the range
Latencies == {200}           \* duration of an answered HTTP request
IdleGaps == {0, 6000}        \* time the caller lets pass between two calls

\* __init__: last_call_time = 0, so the first difference to time.time() is huge
NewRateLimiter ==
    [min_interval |-> InitialMinInterval,
     rate_limit_errors |-> 0,
     since_last_call |-> MaxInterval]

\* d more milliseconds pass on the wall clock
Elapse(lim, d) ==
    [lim EXCEPT !.since_last_call = Min(MaxInterval, @ + d)]

\* variant: spaces calls by the initial 1 s instead of the adaptive min_interval
WaitSleepTime_FixedInterval(lim) ==
    IF lim.since_last_call < InitialMinInterval
    THEN InitialMinInterval - lim.since_last_call
    ELSE 0

\* wait_if_needed, lines 27-32: the time it sleeps
WaitSleepTime(lim) ==
    IF lim.since_last_call < lim.min_interval
    THEN lim.min_interval - lim.since_last_call
    ELSE 0

\* wait_if_needed, line 34: last_call_time = time.time()
wait_if_needed(lim) ==
    [lim EXCEPT !.since_last_call = 0]

\* new last_call_time minus the previous one, as wait_if_needed leaves them
Spacing(lim) ==
    Min(MaxInterval, lim.since_last_call + WaitSleepTime(lim))

\* variant: exponential backoff without the max_backoff cap
BaseWait_Uncapped(a) == Sec(Pow(backoff_multiplier, a))

\* handle_rate_limit_error, lines 41-43
BaseWait(a) == Min(max_backoff, Sec(Pow(backoff_multiplier, a)))
WaitTime(a, jitter) == BaseWait(a) + jitter

\* variant: min_interval grows without the 5 s ceiling
RaiseInterval_Uncapped(mi) == (mi * 3) \div 2

\* handle_rate_limit_error, line 49
RaiseInterval(mi) == Min(MaxInterval, (mi * 3) \div 2)

\* handle_rate_limit_error, the limiter after the call
handle_rate_limit_error(lim, a, jitter) ==
    [min_interval |-> RaiseInterval(lim.min_interval),
     rate_limit_errors |-> lim.rate_limit_errors + 1,
     since_last_call |-> Min(MaxInterval, lim.since_last_call + WaitTime(a, jitter))]

\* _make_request_with_retry, line 153
DecayInterval(mi) == Max(MinIntervalFloor, (mi * 9) \div 10)

\* _make_request_with_retry, lines 150-153: "Success - reset rate limiter state"
SuccessUpdate(lim) ==
    IF lim.rate_limit_errors > 0
    THEN [lim EXCEPT !.rate_limit_errors = Max(0, @ - 1),
                     !.min_interval = DecayInterval(@)]
    ELSE lim

----------------------------------------------------------------------------
(* Operations of one limiter, called directly *)

LimWait(gap) ==
    /\ spacing' = Spacing(Elapse(rate_limiter, gap))
    /\ rate_limiter' = wait_if_needed(Elapse(rate_limiter, gap))
    /\ UNCHANGED <<wait_time, wait_attempt, getVars, cacheVars, pureVars>>

LimRateLimitError(a, jitter) ==
    /\ rate_limiter.rate_limit_errors < MaxErrors
    /\ rate_limiter' = handle_rate_limit_error(rate_limiter, a, jitter)
    /\ wait_time' = WaitTime(a, jitter)
    /\ wait_attempt' = a
    /\ UNCHANGED <<spacing, getVars, cacheVars, pureVars>>

LimSuccess ==
    /\ rate_limiter' = SuccessUpdate(rate_limiter)
    /\ UNCHANGED <<spacing, wait_time, wait_attempt, getVars, cacheVars, pureVars>>

----------------------------------------------------------------------------
(* FacebookAnalytics._make_request_with_retry *)

Payloads == {"page_data", "token_data"}

RateLimitHttp == {"http_429", "http_403_rate_limit"}
NetworkErrors == {"timeout", "conn_error", "http_error"}
AuthCodes     == {"err_190", "err_102"}
ParamCodes    == {"err_100", "err_803"}
GenericCodes  == {"err_other"}
Outcomes == RateLimitHttp \cup NetworkErrors \cup AuthCodes \cup ParamCodes
                \cup GenericCodes \cup {"err_4", "ok"}

\* variant: the retry guard is off by one
CanRetry_OffByOne == attempt < max_retries

\* the retry branches are guarded by "attempt < max_retries - 1"
CanRetry == attempt < max_retries - 1

\* variant: the handler is given the number of the next attempt
HandlerArg_Next == attempt + 1

\* lines 114 and 131: self.rate_limiter.handle_rate_limit_error(attempt)
HandlerArg == attempt

\* lines 107-109: wait_if_needed, then the HTTP request, which takes lat
Requested(lat) == Elapse(wait_if_needed(Elapse(rate_limiter, WaitSleepTime(rate_limiter))), lat)

\* the branch of the loop body an upstream outcome takes
OutcomeClass(o) ==
    CASE o \in RateLimitHttp -> "rate_limit_http"
      [] o = "err_4"         -> "rate_limit_code"
      [] o \in AuthCodes     -> "auth"
      [] o \in ParamCodes    -> "param"
      [] o \in GenericCodes  -> "generic"
      [] o = "timeout"       -> "timeout"
      [] o \in NetworkErrors \ {"timeout"} -> "request_exception"
      [] o = "ok"            -> "ok"

\* every attempt: the spacing it recorded, the request it issued
Issue(o) ==
    /\ pc = "attempt"
    /\ spacing' = Spacing(rate_limiter)
    /\ httpCalls' = httpCalls + 1
    /\ outcomes' = Append(outcomes, OutcomeClass(o))

\* "continue" after handle_rate_limit_error (lines 115, 132)
Continue ==
    /\ pc' = "attempt"
    /\ attempt' = attempt + 1
    /\ UNCHANGED <<result, logged, max_retries>>

\* variant: the failure category is returned instead of None
Fail_Typed(category) ==
    /\ pc' = "done"
    /\ result' = category
    /\ logged' = category
    /\ UNCHANGED <<attempt, max_retries>>

\* return None, after the logger.error of the branch (lines 117-118, 136-137,
\* 140-141, 144-148, 175-176)
Fail(category) ==
    /\ pc' = "done"
    /\ result' = None
    /\ logged' = category
    /\ UNCHANGED <<attempt, max_retries>>

\* def _make_request_with_retry(self, url, params, max_retries=3), after gap of idle time
StartGet(m, gap) ==
    /\ pc \in {"idle", "done"}
    /\ max_retries' = m
    /\ attempt' = 0
    /\ outcomes' = <<>>
    /\ httpCalls' = 0
    /\ rlHandled' = <<>>
    /\ backoffSleeps' = 0
    /\ successUpdates' = 0
    /\ rate_limiter' = Elapse(rate_limiter, gap)
    /\ IF m = 0
       THEN pc' = "done" /\ result' = None /\ logged' = "failed_after_retries"
       ELSE pc' = "attempt" /\ result' = None /\ logged' = "none"
    /\ wait_time' = 0
    /\ wait_attempt' = -1
    /\ sent' = None
    /\ UNCHANGED <<spacing, cacheVars, pureVars>>

\* lines 112-118 (HTTP 429 / 403 with "rate limit" in the body) and 130-132 (code 4)
AttemptRateLimited(o, lat, jitter) ==
    /\ o \in RateLimitHttp \cup {"err_4"}
    /\ Issue(o)
    /\ IF CanRetry
       THEN /\ rate_limiter.rate_limit_errors < MaxErrors
            /\ rate_limiter' = handle_rate_limit_error(Requested(lat), HandlerArg, jitter)
            /\ wait_time' = WaitTime(HandlerArg, jitter)
            /\ wait_attempt' = HandlerArg
            /\ rlHandled' = Append(rlHandled, HandlerArg)
            /\ backoffSleeps' = backoffSleeps + 1
            /\ Continue
       ELSE /\ rate_limiter' = Requested(lat)
            /\ Fail(IF o = "err_4" THEN "api_error" ELSE "rate_limit_exceeded")
            /\ UNCHANGED <<wait_time, wait_attempt, rlHandled, backoffSleeps>>
    /\ UNCHANGED <<successUpdates, sent, cacheVars, pureVars>>

\* variant: terminal codes take the generic backoff-and-retry branch
AttemptTerminalError_Retried(o, lat) ==
    /\ o \in AuthCodes \cup ParamCodes
    /\ Issue(o)
    /\ IF CanRetry
       THEN /\ rate_limiter' = Elapse(Requested(lat), Sec(Pow(2, attempt)))
            /\ backoffSleeps' = backoffSleeps + 1
            /\ pc' = "attempt"
            /\ attempt' = attempt + 1
            /\ logged' = "api_error"
            /\ UNCHANGED <<result, max_retries>>
       ELSE /\ rate_limiter' = Requested(lat)
            /\ Fail("api_error")
            /\ UNCHANGED backoffSleeps
    /\ UNCHANGED <<wait_time, wait_attempt, rlHandled, successUpdates, sent, cacheVars, pureVars>>

\* lines 135-141: codes 190, 102 (authentication) and 100, 803 (parameter)
AttemptTerminalError(o, lat) ==
    /\ o \in AuthCodes \cup ParamCodes
    /\ Issue(o)
    /\ rate_limiter' = Requested(lat)
    /\ Fail(IF o \in AuthCodes THEN "authentication_error" ELSE "parameter_error")
    /\ UNCHANGED <<wait_time, wait_attempt, rlHandled, backoffSleeps,
                   successUpdates, sent, cacheVars, pureVars>>

\* variant: a generic error that is retried counts as a rate-limit error
AttemptGenericError_Counted(o, lat, jitter) ==
    /\ o \in GenericCodes
    /\ Issue(o)
    /\ IF CanRetry
       THEN /\ rate_limiter' =
                 [Elapse(Requested(lat), Sec(Pow(2, attempt)) + jitter)
                     EXCEPT !.rate_limit_errors = Min(@ + 1, MaxErrors)]
            /\ backoffSleeps' = backoffSleeps + 1
            /\ pc' = "attempt"
            /\ attempt' = attempt + 1
            /\ logged' = "api_error"
            /\ UNCHANGED <<result, max_retries>>
       ELSE /\ rate_limiter' = Requested(lat)
            /\ Fail("api_error")
            /\ UNCHANGED backoffSleeps
    /\ UNCHANGED <<wait_time, wait_attempt, rlHandled, successUpdates, sent, cacheVars, pureVars>>

\* lines 143-148: any other embedded error code
AttemptGenericError(o, lat, jitter) ==
    /\ o \in GenericCodes
    /\ Issue(o)
    /\ IF CanRetry
       THEN /\ rate_limiter' = Elapse(Requested(lat), Sec(Pow(2, attempt)) + jitter)
            /\ backoffSleeps' = backoffSleeps + 1
            /\ pc' = "attempt"
            /\ attempt' = attempt + 1
            /\ logged' = "api_error"
            /\ UNCHANGED <<result, max_retries>>
       ELSE /\ rate_limiter' = Requested(lat)
            /\ Fail("api_error")
            /\ UNCHANGED backoffSleeps
    /\ UNCHANGED <<wait_time, wait_attempt, rlHandled, successUpdates, sent, cacheVars, pureVars>>

\* lines 157-167: Timeout, and RequestException (connection error, or the
\* HTTPError raised by raise_for_status at line 120)
AttemptNetworkError(o, jitter) ==
    /\ o \in NetworkErrors
    /\ Issue(o)
    /\ \E lat \in (IF o = "timeout" THEN {RequestTimeout} ELSE Latencies) :
         IF CanRetry
         THEN /\ rate_limiter' =
                   Elapse(Requested(lat),
                          Sec(Pow(2, attempt)) + (IF o = "timeout" THEN 0 ELSE jitter))
              /\ backoffSleeps' = backoffSleeps + 1
              /\ pc' = "attempt"
              /\ attempt' = attempt + 1
              /\ logged' = (IF o = "timeout" THEN logged ELSE "request_failed")
              /\ UNCHANGED <<result, max_retries>>
         ELSE /\ rate_limiter' = Requested(lat)
              /\ Fail("failed_after_retries")
              /\ UNCHANGED backoffSleeps
    /\ UNCHANGED <<wait_time, wait_attempt, rlHandled, successUpdates, sent, cacheVars, pureVars>>

\* lines 150-155: a clean response
AttemptSuccess(p, lat) ==
    /\ Issue("ok")
    /\ rate_limiter' = SuccessUpdate(Requested(lat))
    /\ successUpdates' = successUpdates + (IF rate_limiter.rate_limit_errors > 0 THEN 1 ELSE 0)
    /\ sent' = p
    /\ pc' = "done"
    /\ result' = p
    /\ UNCHANGED <<attempt, max_retries, logged, wait_time, wait_attempt,
                   rlHandled, backoffSleeps, cacheVars, pureVars>>

----------------------------------------------------------------------------
(* Response cache: _get_cached_data / _set_cached_data *)

cache_timeout == 300000      \* self._cache_timeout = 300

Keys == {"page_insights_1", "follower_trend_1"}
CachePayloads == {"insights", "empty_list"}
Ticks == {100000, 99999}

\* variant: an entry exactly cache_timeout old still counts as fresh
GetCachedData_Inclusive(c, k, t) ==
    IF k \in DOMAIN c
    THEN IF t - c[k].timestamp <= cache_timeout THEN c[k].data ELSE None
    ELSE None

\* _get_cached_data
GetCachedData(c, k, t) ==
    IF k \in DOMAIN c
    THEN IF t - c[k].timestamp < cache_timeout THEN c[k].data ELSE None
    ELSE None

\* _set_cached_data
SetCachedData(c, k, d, t) ==
    [x \in DOMAIN c \cup {k} |->
        IF x = k THEN [timestamp |-> t, data |-> d] ELSE c[x]]

CacheGet(k) ==
    /\ readKey' = k
    /\ readAt' = now
    /\ readResult' = GetCachedData(cache, k, now)
    /\ UNCHANGED <<now, cache, written, limVars, getVars, pureVars>>

CacheSet(k, d) ==
    /\ cache' = SetCachedData(cache, k, d, now)
    /\ written' = [written EXCEPT ![k] = [at |-> now, payload |-> d]]
    /\ UNCHANGED <<now, readKey, readAt, readResult, limVars, getVars, pureVars>>

Tick(d) ==
    /\ now + d <= MaxClock * 100000
    /\ now' = now + d
    /\ UNCHANGED <<cache, written, readKey, readAt, readResult, limVars, getVars, pureVars>>

----------------------------------------------------------------------------
(* Fetch operations of the facades over the response cache.  The requests an
   operation sends upstream are summarised by their overall result: "fail"
   (no response, or an error payload), "empty" (an empty JSON object or
   listing) or "data". *)

UpstreamResults == {"fail", "empty", "data"}
FacadeTicks == {150000}

\* cache_key of each operation, for account 1; get_post_insights builds none
FacadeKey(op) ==
    CASE op = "page_insights"  -> "page_insights_1"
      [] op = "post_insights"  -> "post_insights_1"
      [] op = "media_insights" -> "media_insights_1"
      [] op = "account_info"   -> "account_info_1"

AllKeys == Keys \cup {"post_insights_1", "media_insights_1", "account_info_1"}

\* "if cached_data:" -- None and the empty list are both false
Truthy(d) == d \notin {None, "empty_list"}

\* an entry younger than the timeout exists for k
Fresh(c, k, t) == k \in DOMAIN c /\ t - c[k].timestamp < cache_timeout

\* what the operation did: the record left in facade
Served(op, up, res) ==
    facade' = [n |-> facade.n + 1, op |-> op, key |-> FacadeKey(op),
               upstream |-> up # "cached", fetched |-> up, result |-> res]

\* return cached_data
ServeCached(op) ==
    /\ Served(op, "cached", GetCachedData(cache, FacadeKey(op), now))
    /\ UNCHANGED <<cache, written>>

\* self._set_cached_data(cache_key, d); return d
StoreAndReturn(op, up, d) ==
    /\ cache' = SetCachedData(cache, FacadeKey(op), d, now)
    /\ written' = [written EXCEPT ![FacadeKey(op)] = [at |-> now, payload |-> d]]
    /\ Served(op, up, d)

\* return d without touching the cache
ReturnOnly(op, up, d) ==
    /\ Served(op, up, d)
    /\ UNCHANGED <<cache, written>>

\* FacebookAnalytics.get_page_insights
GetPageInsights(up) ==
    /\ facade.n < MaxOps
    /\ IF Truthy(GetCachedData(cache, FacadeKey("page_insights"), now))
       THEN ServeCached("page_insights")
       ELSE IF up = "data"
            THEN StoreAndReturn("page_insights", up, "insights")
            ELSE ReturnOnly("page_insights", up, None)
    /\ UNCHANGED <<now, readKey, readAt, readResult, limVars, getVars, keyreq, trend, auxVars>>

\* FacebookAnalytics.get_post_insights: no cache lookup, no cache write
GetPostInsights(up) ==
    /\ facade.n < MaxOps
    /\ ReturnOnly("post_insights", up, IF up = "data" THEN "post_insights" ELSE None)
    /\ UNCHANGED <<now, readKey, readAt, readResult, limVars, getVars, keyreq, trend, auxVars>>

\* InstagramAnalytics.get_media_insights: the (possibly empty) list of
\* processed items is stored whatever the page requests returned
GetMediaInsights(up) ==
    /\ facade.n < MaxOps
    /\ IF Truthy(GetCachedData(cache, FacadeKey("media_insights"), now))
       THEN ServeCached("media_insights")
       ELSE StoreAndReturn("media_insights", up,
                           IF up = "data" THEN "media_list" ELSE "empty_list")
    /\ UNCHANGED <<now, readKey, readAt, readResult, limVars, getVars, keyreq, trend, auxVars>>

\* InstagramAnalytics.get_account_info
GetAccountInfo(up) ==
    /\ facade.n < MaxOps
    /\ IF Truthy(GetCachedData(cache, FacadeKey("account_info"), now))
       THEN ServeCached("account_info")
       ELSE IF up = "data"
            THEN StoreAndReturn("account_info", up, "account_info")
            ELSE ReturnOnly("account_info", up, "fallback_info")
    /\ UNCHANGED <<now, readKey, readAt, readResult, limVars, getVars, keyreq, trend, auxVars>>

----------------------------------------------------------------------------
(* Cache keys of get_page_insights and get_account_insights.  A string is the
   sequence of its characters, so that the f-string is a concatenation and
   two keys are equal exactly when they are the same characters. *)

\* the literal that opens the f-string of each operation
Prefix(endpoint) ==
    IF endpoint = "page_insights"
    THEN <<"p", "a", "g", "e", "_", "i", "n", "s", "i", "g", "h", "t", "s">>
    ELSE <<"i", "n", "s", "i", "g", "h", "t", "s">>

Endpoints == {"page_insights", "insights"}
AccountIds == {<<"1">>, <<"1", "_", "2">>}
MetricNames == {<<"f">>, <<"2", "_", "f">>, <<"f", ",", "f">>}
Periods == {<<"d">>, <<"w">>}
Sinces == {<<"s">>}
Untils == {<<"u">>}

MetricLists == UNION {[1..n -> MetricNames] : n \in 1..MaxMetrics}

Requests ==
    [endpoint : Endpoints, id : AccountIds, metrics : MetricLists,
     period : Periods, since : Sinces, until : Untils]

\* sep.join(parts)
RECURSIVE Join(_, _)
Join(parts, sep) ==
    IF parts = <<>> THEN <<>>
    ELSE IF Len(parts) = 1 THEN parts[1]
    ELSE parts[1] \o sep \o Join(Tail(parts), sep)

\* f"page_insights_{page_id}_{','.join(metrics)}_{period}_{since}_{until}"
CacheKey(r) ==
    Join(<<Prefix(r.endpoint), r.id, Join(r.metrics, <<",">>),
           r.period, r.since, r.until>>, <<"_">>)

NoRequest ==
    [endpoint |-> None, id |-> <<>>, metrics |-> <<>>,
     period |-> <<>>, since |-> <<>>, until |-> <<>>]

\* the first lines of get_page_insights / get_account_insights: build the key
BuildKey(r) ==
    /\ keyreq' = [n |-> Min(keyreq.n + 1, 2),
                  req |-> r, key |-> CacheKey(r),
                  prevreq |-> keyreq.req, prevkey |-> keyreq.key]
    /\ UNCHANGED <<limVars, getVars, cacheVars, facade, trend, auxVars>>

----------------------------------------------------------------------------
(* get_follower_count_trend.  An end_time is a timestamp string; the model
   keeps its day and its hour, and value['end_time'][:10] is its day.  A run
   of the model observes one trend request, which finds no cache entry. *)

EndTimes ==
    {[day |-> 1, hour |-> 7], [day |-> 2, hour |-> 7], [day |-> 3, hour |-> 7]}

\* value['end_time'][:10]
DateOf(end_time) == end_time.day

\* x in s, for a list s
Member(x, s) == \E i \in 1..Len(s) : s[i] = x

RECURSIVE Sum(_)
Sum(s) == IF s = <<>> THEN 0 ELSE Head(s) + Sum(Tail(s))

RECURSIVE MinOf(_)
MinOf(s) == IF Len(s) = 1 THEN s[1] ELSE Min(Head(s), MinOf(Tail(s)))

RECURSIVE MaxOf(_)
MaxOf(s) == IF Len(s) = 1 THEN s[1] ELSE Max(Head(s), MaxOf(Tail(s)))

\* variant: the quotient rounded down
int_Floor(num, den) ==
    IF num >= 0 THEN num \div den ELSE -((-num + den - 1) \div den)

\* int(num / den) for den > 0: Python's int() drops the fraction
int(num, den) ==
    IF num >= 0 THEN num \div den ELSE -((-num) \div den)

\* all lists of at most n elements of S
SeqsUpTo(S, n) == UNION {[1..k -> S] : k \in 0..n}

\* f"follower_trend_{id}_{days}"
TrendKey(id, days) == "follower_trend_" \o id \o "_" \o ToString(days)

\* an upstream that answers every request of a trend handler properly
CleanUpstream ==
    [token |-> "ok", post |-> "ok", codes |-> <<200, 200, 200>>,
     account |-> "ok", insights |-> "ok"]

NoTrend ==
    [platform |-> None, upstream |-> CleanUpstream,
     values |-> <<>>, fan_adds |-> <<>>, fan_removes |-> <<>>,
     jits |-> <<>>, current |-> 0, days |-> 0,
     observed |-> [dates |-> <<>>, counts |-> <<>>],
     flat |-> FALSE, branch |-> None, scale |-> 1,
     dates |-> <<>>, counts |-> <<>>]

\* result = (dates, counts); self._set_cached_data(cache_key, result)
StoreTrend(key) ==
    /\ cache' = SetCachedData(cache, key, "trend", now)
    /\ written' = [k \in DOMAIN written \cup {key} |->
                      IF k = key THEN [at |-> now, payload |-> "trend"]
                      ELSE written[k]]

----------------------------------------------------------------------------
(* InstagramAnalytics.get_follower_count_trend *)

Currents == {0, 20, 100}       \* followers_count of get_account_info, 0 when it failed
Changes == {-3, 5}             \* daily follower_count values
IgJitters == {-1, 0, 2}        \* values of random.randint(-1, 2)
IgValues == [end_time : EndTimes, value : Changes]
Today == 10                    \* the day of datetime.utcnow()

\* lines 124-129: every value is appended
IgParse(values) ==
    [dates   |-> [i \in 1..Len(values) |-> DateOf(values[i].end_time)],
     changes |-> [i \in 1..Len(values) |-> values[i].value]]

\* lines 138-140, from index i down to 1
RECURSIVE ReconstructFrom(_, _, _, _)
ReconstructFrom(follower_changes, i, running_total, actual_counts) ==
    IF i = 0 THEN actual_counts
    ELSE ReconstructFrom(follower_changes, i - 1,
                         running_total - follower_changes[i],
                         <<running_total>> \o actual_counts)

\* variant: each day's change is taken off before the day is recorded
Reconstruct_ChangeFirst(follower_changes, current_followers) ==
    LET r == ReconstructFrom(follower_changes, Len(follower_changes),
                             current_followers, <<>>)
    IN [i \in 1..Len(r) |-> r[i] - follower_changes[i]]

\* lines 134-140: work backwards from the current count
Reconstruct(follower_changes, current_followers) ==
    ReconstructFrom(follower_changes, Len(follower_changes),
                    current_followers, <<>>)

(* The synthesized counts mix integers with the float start_count, so the
   model keeps them in hundredths of a follower: scale 100. *)

\* max(current_followers - days * 2, current_followers * 0.95), in hundredths
StartCount(current_followers, days) ==
    Max(100 * (current_followers - days * 2), 95 * current_followers)

\* variant: the last point is left as computed
Synthesize_Unforced(current_followers, days, jits) ==
    [i \in 1..days |->
        Max(100 * (jits[i]
                   + IF days > 1
                     THEN int(StartCount(current_followers, days) * (days - i)
                                + 100 * current_followers * (i - 1),
                              100 * (days - 1))
                     ELSE current_followers),
            StartCount(current_followers, days))]

\* lines 157-171; jits[i + 1] is the random.randint(-1, 2) of round i
Synthesize(current_followers, days, jits) ==
    LET start_count == StartCount(current_followers, days)
        point(i) ==
            LET follower_count ==
                    IF days > 1
                    THEN int(start_count * (days - 1)
                               + (100 * current_followers - start_count) * i,
                             100 * (days - 1))
                    ELSE int(100 * current_followers, 100)
            IN Max(100 * (follower_count + jits[i + 1]), start_count)
        counts == [i \in 1..days |-> point(i - 1)]
    IN [counts EXCEPT ![days] = 100 * current_followers]

\* (end - timedelta(days=days-1-i)).strftime('%Y-%m-%d') for i in range(days)
WindowDates(days) == [i \in 1..days |-> Today - (days - i)]

\* lines 103-105: no follower data, nothing is requested and nothing stored
IgNoFollowers(days) ==
    /\ trend' = [NoTrend EXCEPT !.platform = "instagram", !.days = days,
                                !.branch = "empty"]
    /\ UNCHANGED <<cache, written>>

\* lines 133-148
IgFromChanges(days, current_followers, values) ==
    /\ trend' = [NoTrend EXCEPT
                    !.platform = "instagram", !.days = days,
                    !.current = current_followers, !.values = values,
                    !.branch = "reconstructed",
                    !.dates = IgParse(values).dates,
                    !.counts = Reconstruct(IgParse(values).changes,
                                           current_followers)]
    /\ StoreTrend(TrendKey("2", days))

\* lines 149-177
IgSynthesized(days, current_followers, jits) ==
    /\ trend' = [NoTrend EXCEPT
                    !.platform = "instagram", !.days = days,
                    !.current = current_followers, !.jits = jits,
                    !.branch = "synthesized", !.scale = 100,
                    !.dates = WindowDates(days),
                    !.counts = Synthesize(current_followers, days, jits)]
    /\ StoreTrend(TrendKey("2", days))

\* InstagramAnalytics.get_follower_count_trend(instagram_id = 2, days)
IgTrend(days, current_followers) ==
    /\ trend.platform = None
    /\ IF current_followers = 0
       THEN IgNoFollowers(days)
       ELSE \E values \in SeqsUpTo(IgValues, MaxLen) :
               IF IgParse(values).dates # <<>> /\ IgParse(values).changes # <<>>
               THEN IgFromChanges(days, current_followers, values)
               ELSE \E jits \in [1..days -> IgJitters] :
                       IgSynthesized(days, current_followers, jits)
    /\ UNCHANGED <<now, readKey, readAt, readResult, limVars, getVars, facade, keyreq, auxVars>>

----------------------------------------------------------------------------
(* FacebookAnalytics.get_follower_count_trend *)

DefaultDays == 7                \* days=7
FanCounts == {100, 103, 120}    \* page_fans values
FanAdds == {<<>>, <<10, 20>>}   \* page_fan_adds values
FanRemoves == {<<>>, <<30, 7>>} \* page_fan_removes values
FbJitters == {-2, 0, 2}         \* values of random.randint(-2, 2)
FbValues == [end_time : EndTimes, value : FanCounts]

\* lines 263-270: the first value of each date is kept
RECURSIVE FbParseFans(_, _, _)
FbParseFans(values, dates, counts) ==
    IF values = <<>> THEN [dates |-> dates, counts |-> counts]
    ELSE LET date == DateOf(Head(values).end_time)
             count == Head(values).value
         IN IF ~Member(date, dates)
            THEN FbParseFans(Tail(values), Append(dates, date), Append(counts, count))
            ELSE FbParseFans(Tail(values), dates, counts)

\* variant: a series is also flat at a variation of exactly 10
IsFlat_Inclusive(counts) ==
    LET variation == MaxOf(counts) - MinOf(counts) IN
    \/ IF Sum(counts) > 0
       THEN variation * 100 * Len(counts) < 2 * Sum(counts)
       ELSE 0 < 2
    \/ variation <= 10

\* lines 283-292.  variation_percentage = variation / avg_count * 100 with
\* avg_count = sum / len, so variation_percentage < 2 is
\* variation * 100 * len < 2 * sum when avg_count > 0
IsFlat(counts) ==
    LET variation == MaxOf(counts) - MinOf(counts) IN
    \/ IF Sum(counts) > 0
       THEN variation * 100 * Len(counts) < 2 * Sum(counts)
       ELSE 0 < 2
    \/ variation < 10

\* variant: only the upper limit is enforced
Clamp_UpperOnly(x, lo, hi) == Min(x, hi)

\* lines 315-316: max(x, lo), then min(., hi)
Clamp(x, lo, hi) == Min(Max(x, lo), hi)

\* variant: the last point is left as computed
Enhance_Unanchored(counts, fan_adds, fan_removes, jits) ==
    LET net_change == Sum(fan_adds) - Sum(fan_removes)
        enhanced(i) ==
            IF i = 0 THEN counts[1]
            ELSE Clamp(counts[1] + int(net_change * i, Len(counts) - 1) + jits[i],
                       MinOf(counts) - 5, MaxOf(counts) + 10)
    IN [i \in 1..Len(counts) |-> enhanced(i - 1)]

\* lines 296-325; jits[i] is the random.randint(-2, 2) of index i (from 0);
\* progress = i / (len(counts) - 1)
Enhance(counts, fan_adds, fan_removes, jits) ==
    LET base_count == counts[1]
        total_adds == IF fan_adds # <<>> THEN Sum(fan_adds) ELSE 0
        total_removes == IF fan_removes # <<>> THEN Sum(fan_removes) ELSE 0
        net_change == total_adds - total_removes
        min_count == MinOf(counts)
        max_count == MaxOf(counts)
        enhanced(i) ==
            IF i = 0 THEN counts[1]
            ELSE LET trend_change == int(net_change * i, Len(counts) - 1)
                     enhanced_count == base_count + trend_change + jits[i]
                 IN Clamp(enhanced_count, min_count - 5, max_count + 10)
        enhanced_counts == [i \in 1..Len(counts) |-> enhanced(i - 1)]
    IN [enhanced_counts EXCEPT ![Len(counts)] = counts[Len(counts)]]

\* lines 272-274: nothing parsed, nothing stored
FbNoData(values, fan_adds, fan_removes) ==
    /\ trend' = [NoTrend EXCEPT
                    !.platform = "facebook", !.days = DefaultDays,
                    !.values = values, !.fan_adds = fan_adds,
                    !.fan_removes = fan_removes, !.branch = "empty"]
    /\ UNCHANGED <<cache, written>>

\* lines 292-333
FbResult(values, fan_adds, fan_removes, jits, branch, counts) ==
    /\ trend' = [NoTrend EXCEPT
                    !.platform = "facebook", !.days = DefaultDays,
                    !.values = values, !.fan_adds = fan_adds,
                    !.fan_removes = fan_removes, !.jits = jits,
                    !.observed = FbParseFans(values, <<>>, <<>>),
                    !.flat = (branch = "enhanced"), !.branch = branch,
                    !.dates = FbParseFans(values, <<>>, <<>>).dates,
                    !.counts = counts]
    /\ StoreTrend(TrendKey("1", DefaultDays))

\* variant: every series is enhanced, flat or not
FbTrend_AlwaysEnhanced(values, fan_adds, fan_removes) ==
    /\ trend.platform = None
    /\ LET parsed == FbParseFans(values, <<>>, <<>>) IN
       IF parsed.dates = <<>> \/ parsed.counts = <<>>
       THEN FbNoData(values, fan_adds, fan_removes)
       ELSE \E jits \in [1..(Len(parsed.counts) - 1) -> FbJitters] :
               FbResult(values, fan_adds, fan_removes, jits,
                        IF IsFlat(parsed.counts) THEN "enhanced" ELSE "original",
                        Enhance(parsed.counts, fan_adds, fan_removes, jits))
    /\ UNCHANGED <<now, readKey, readAt, readResult, limVars, getVars, facade, keyreq, auxVars>>

\* FacebookAnalytics.get_follower_count_trend(page_id = 1)
FbTrend(values, fan_adds, fan_removes) ==
    /\ trend.platform = None
    /\ LET parsed == FbParseFans(values, <<>>, <<>>) IN
       IF parsed.dates = <<>> \/ parsed.counts = <<>>
       THEN FbNoData(values, fan_adds, fan_removes)
       ELSE IF IsFlat(parsed.counts)
       THEN \E jits \in [1..(Len(parsed.counts) - 1) -> FbJitters] :
               FbResult(values, fan_adds, fan_removes, jits, "enhanced",
                        Enhance(parsed.counts, fan_adds, fan_removes, jits))
       ELSE FbResult(values, fan_adds, fan_removes, <<>>, "original",
                     parsed.counts)
    /\ UNCHANGED <<now, readKey, readAt, readResult, limVars, getVars, facade, keyreq, auxVars>>

\* page_fans counts around the two thresholds of the flatness test
BoundaryCounts == {0, 495, 504, 505, 1000, 1015}

\* an answer with one value per day, oldest first
DailyValues(counts) ==
    [i \in 1..Len(counts) |->
        [end_time |-> [day |-> i, hour |-> 7], value |-> counts[i]]]

----------------------------------------------------------------------------
(* get_follower_count_trend over an upstream that may fail.  The token
   resolution, the batch POST and each of the three sub-responses of the
   batch (page_fans, page_fan_adds, page_fan_removes, in the order asked)
   have their own outcome; a sub-response whose code is not 200 carries an
   error body and no values. *)

TokenOutcomes == {"ok", "not_listed", "no_listing"}
PostOutcomes == {"ok", "network_error", "not_json", "error_object"}
SubCodes == {200, 400}
BatchFans == {<<>>,
              <<[end_time |-> [day |-> 1, hour |-> 7], value |-> 100],
                [end_time |-> [day |-> 2, hour |-> 7], value |-> 103],
                [end_time |-> [day |-> 3, hour |-> 7], value |-> 100]>>,
              <<[end_time |-> [day |-> 1, hour |-> 7], value |-> 100],
                [end_time |-> [day |-> 2, hour |-> 7], value |-> 120]>>}

\* the bodies a batch with these codes can carry
Carried(codes, values, fan_adds, fan_removes) ==
    /\ codes[1] # 200 => values = <<>>
    /\ codes[2] # 200 => fan_adds = <<>>
    /\ codes[3] # 200 => fan_removes = <<>>

\* variant: one sub-response that is not 200 fails the batch
Demux_AllOrNothing(codes, values, fan_adds, fan_removes) ==
    [ok |-> \A i \in 1..3 : codes[i] = 200,
     values |-> values, fan_adds |-> fan_adds, fan_removes |-> fan_removes]

\* lines 259-270: each sub-response with code 200 is parsed, the others are
\* passed over
Demux(codes, values, fan_adds, fan_removes) ==
    [ok          |-> TRUE,
     values      |-> IF codes[1] = 200 THEN values ELSE <<>>,
     fan_adds    |-> IF codes[2] = 200 THEN fan_adds ELSE <<>>,
     fan_removes |-> IF codes[3] = 200 THEN fan_removes ELSE <<>>]

\* lines 335-337: except Exception: return [], []
FbFailed(up) ==
    /\ trend' = [NoTrend EXCEPT !.platform = "facebook", !.days = DefaultDays,
                                !.upstream = up, !.branch = "error"]
    /\ UNCHANGED <<cache, written>>

\* lines 272-334 on the demultiplexed values d
FbServed(up, d) ==
    LET parsed == FbParseFans(d.values, <<>>, <<>>)
        base == [NoTrend EXCEPT
                    !.platform = "facebook", !.days = DefaultDays,
                    !.upstream = up, !.values = d.values,
                    !.fan_adds = d.fan_adds, !.fan_removes = d.fan_removes]
    IN IF parsed.dates = <<>> \/ parsed.counts = <<>>
       THEN /\ trend' = [base EXCEPT !.branch = "empty"]
            /\ UNCHANGED <<cache, written>>
       ELSE /\ IF IsFlat(parsed.counts)
               THEN \E jits \in [1..(Len(parsed.counts) - 1) -> FbJitters] :
                       trend' = [base EXCEPT
                                    !.jits = jits, !.observed = parsed,
                                    !.flat = TRUE, !.branch = "enhanced",
                                    !.dates = parsed.dates,
                                    !.counts = Enhance(parsed.counts, d.fan_adds,
                                                       d.fan_removes, jits)]
               ELSE trend' = [base EXCEPT
                                 !.observed = parsed, !.branch = "original",
                                 !.dates = parsed.dates, !.counts = parsed.counts]
            /\ StoreTrend(TrendKey("1", DefaultDays))

\* FacebookAnalytics.get_follower_count_trend(page_id = 1), whatever the
\* upstream does
FbTrendUpstream(token, post, codes, values, fan_adds, fan_removes) ==
    /\ trend.platform = None
    /\ Carried(codes, values, fan_adds, fan_removes)
    /\ LET up == [CleanUpstream EXCEPT !.token = token, !.post = post,
                                       !.codes = codes]
           d == Demux(codes, values, fan_adds, fan_removes)
       IN IF token # "ok"
          THEN /\ post = "ok" /\ codes = CleanUpstream.codes /\ values = <<>>
               /\ fan_adds = <<>> /\ fan_removes = <<>>
               /\ FbFailed(up)
          ELSE IF post # "ok"
          THEN /\ codes = CleanUpstream.codes /\ values = <<>>
               /\ fan_adds = <<>> /\ fan_removes = <<>>
               /\ FbFailed(up)
          ELSE IF ~d.ok THEN FbFailed(up) ELSE FbServed(up, d)
    /\ UNCHANGED <<now, readKey, readAt, readResult, limVars, getVars, facade,
                   keyreq, auxVars>>

InsightsOutcomes == {"ok", "failed", "error_object", "bad_values"}
InsightsValues == {<<>>,
                   <<[end_time |-> [day |-> 1, hour |-> 7], value |-> -3],
                     [end_time |-> [day |-> 2, hour |-> 7], value |-> 5]>>}

\* the trend record of an Instagram request over upstream up
IgBase(up, days, current_followers) ==
    [NoTrend EXCEPT !.platform = "instagram", !.days = days, !.upstream = up,
                    !.current = current_followers]

\* InstagramAnalytics.get_follower_count_trend(instagram_id = 2, days),
\* whatever the upstream does.  get_account_info answers a failure with
\* followers_count 0; _make_request answers a failure with None; a value
\* without its end_time raises inside the try (lines 179-181).
IgTrendUpstream(days, account, followers_count, insights, values) ==
    /\ trend.platform = None
    /\ insights # "ok" => values = <<>>
    /\ LET up == [CleanUpstream EXCEPT !.account = account, !.insights = insights]
           current_followers == IF account = "ok" THEN followers_count ELSE 0
           base == IgBase(up, days, current_followers)
       IN IF current_followers = 0
          THEN /\ insights = "ok" /\ values = <<>>
               /\ (account # "ok" => followers_count = 0)
               /\ trend' = [base EXCEPT !.branch = "empty"]
               /\ UNCHANGED <<cache, written>>
          ELSE IF insights = "bad_values"
          THEN /\ trend' = [base EXCEPT !.branch = "error"]
               /\ UNCHANGED <<cache, written>>
          ELSE IF values # <<>>
          THEN /\ trend' = [base EXCEPT
                               !.values = values, !.branch = "reconstructed",
                               !.dates = IgParse(values).dates,
                               !.counts = Reconstruct(IgParse(values).changes,
                                                      current_followers)]
               /\ StoreTrend(TrendKey("2", days))
          ELSE \E jits \in [1..days -> IgJitters] :
                  /\ trend' = [base EXCEPT
                                  !.jits = jits, !.branch = "synthesized",
                                  !.scale = 100, !.dates = WindowDates(days),
                                  !.counts = Synthesize(current_followers, days, jits)]
                  /\ StoreTrend(TrendKey("2", days))
    /\ UNCHANGED <<now, readKey, readAt, readResult, limVars, getVars, facade,
                   keyreq, auxVars>>

----------------------------------------------------------------------------
(* get_best_times.  A post is a dict; a key it may lack is modelled as a list
   that is empty when the key is missing and holds the value otherwise.  The
   timestamp either parses to an hour or makes the parser raise.  Rates are
   percentages in hundredths: round(x, 2) * 100. *)

HoursPerDay == 24
Hours == 0..(HoursPerDay - 1)

PostTimestamps ==
    {<<>>, <<[parses |-> FALSE, hour |-> 0]>>,
     <<[parses |-> TRUE, hour |-> 9]>>, <<[parses |-> TRUE, hour |-> 23]>>}
PostEngagements == {<<>>, <<4>>}
PostReaches == {<<>>, <<0>>, <<10>>}
Posts == [timestamp : PostTimestamps, engagement : PostEngagements,
          reach : PostReaches]

\* {i: {'engagement': [], 'reach': [], 'posts': 0} for i in range(24)}
EmptyHourlyData ==
    [h \in Hours |-> [engagement |-> <<>>, reach |-> <<>>, posts |-> 0]]

\* instagram_analytics.py lines 315-332, one post: each statement of the try
\* body takes effect until one raises
IgAddPost(hourly_data, post) ==
    IF post.timestamp = <<>> THEN hourly_data
    ELSE IF ~post.timestamp[1].parses THEN hourly_data
    ELSE LET hour == post.timestamp[1].hour IN
         IF post.engagement = <<>> THEN hourly_data
         ELSE LET appended ==
                     [hourly_data EXCEPT
                         ![hour].engagement = Append(@, post.engagement[1])]
              IN IF post.reach = <<>> THEN appended
                 ELSE [appended EXCEPT
                          ![hour].reach = Append(@, post.reach[1]),
                          ![hour].posts = @ + 1]

\* facebook_analytics.py lines 646-652, one post
FbAddPost(hourly_data, post) ==
    IF post.timestamp = <<>> THEN hourly_data
    ELSE IF ~post.timestamp[1].parses THEN hourly_data
    ELSE LET hour == post.timestamp[1].hour IN
         IF post.engagement = <<>> THEN hourly_data
         ELSE [hourly_data EXCEPT
                  ![hour].engagement = Append(@, post.engagement[1]),
                  ![hour].posts = @ + 1]

\* for post in posts
RECURSIVE Accumulate(_, _, _)
Accumulate(platform, hourly_data, posts) ==
    IF posts = <<>> THEN hourly_data
    ELSE Accumulate(platform,
                    IF platform = "instagram"
                    THEN IgAddPost(hourly_data, Head(posts))
                    ELSE FbAddPost(hourly_data, Head(posts)),
                    Tail(posts))

\* num / den rounded to the nearest integer, for num >= 0 and den > 0
Round(num, den) == (2 * num + den) \div (2 * den)

\* instagram_analytics.py lines 334-350, one hour.  np.mean of no reach
\* samples is nan, and int(nan) raises
IgHourRaises(data) == data.engagement # <<>> /\ data.reach = <<>>

IgHour(data) ==
    IF data.engagement # <<>>
    THEN [engagement_rate |->
              IF Sum(data.reach) > 0
              THEN Round(10000 * Sum(data.engagement) * Len(data.reach),
                         Len(data.engagement) * Sum(data.reach))
              ELSE 0,
          post_count |-> data.posts,
          avg_reach |-> int(Sum(data.reach), Len(data.reach)),
          avg_engagement |-> int(Sum(data.engagement), Len(data.engagement))]
    ELSE [engagement_rate |-> 0, post_count |-> 0,
          avg_reach |-> 0, avg_engagement |-> 0]

\* facebook_analytics.py lines 658-677, one hour
FbHour(data, total_posts, total_engagement) ==
    IF data.engagement # <<>>
    THEN [engagement_rate |->
              Round(10000 * Sum(data.engagement), Max(1, total_engagement)),
          post_count |-> data.posts,
          post_frequency |-> Round(10000 * data.posts, Max(1, total_posts)),
          avg_engagement |-> int(Sum(data.engagement), Len(data.engagement))]
    ELSE [engagement_rate |-> 0, post_count |-> 0,
          post_frequency |-> 0, avg_engagement |-> 0]

RECURSIVE SumOver(_, _)
SumOver(f, S) ==
    IF S = {} THEN 0
    ELSE LET x == CHOOSE y \in S : TRUE IN f[x] + SumOver(f, S \ {x})

\* the dict returned: {} when the outer try caught an exception
BestTimes(platform, hourly_data) ==
    IF platform = "instagram"
    THEN IF \E h \in Hours : IgHourRaises(hourly_data[h])
         THEN <<>>
         ELSE [h \in Hours |-> IgHour(hourly_data[h])]
    ELSE LET total_posts == SumOver([h \in Hours |-> hourly_data[h].posts], Hours)
             total_engagement ==
                 SumOver([h \in Hours |-> Sum(hourly_data[h].engagement)], Hours)
         IN [h \in Hours |-> FbHour(hourly_data[h], total_posts, total_engagement)]

\* get_best_times of either platform on a list of posts
GetBestTimes(platform, posts) ==
    /\ best.platform = None
    /\ best' = [platform |-> platform, posts |-> posts,
                hourly_data |-> Accumulate(platform, EmptyHourlyData, posts),
                result |-> BestTimes(platform,
                                     Accumulate(platform, EmptyHourlyData, posts))]
    /\ UNCHANGED <<limVars, getVars, cacheVars, facade, keyreq, trend, media, pages>>

----------------------------------------------------------------------------
(* _get_page_access_token and the operations that start with it:
   get_page_insights, get_post_insights, get_page_posts.  The accounts
   listing either arrives with its 'data' (one HTTP request), arrives
   without 'data', or does not arrive: a network error on each of the three
   attempts of _make_request. *)

PageIds == {"1", "2"}
PageEntries == {[id |-> "1", access_token |-> "token_1"],
                [id |-> "2", access_token |-> "token_2"],
                [id |-> "3", access_token |-> "token_3"]}
ListingOutcomes == {"data", "no_data", "no_response"}
TokenOps == {"page_insights", "post_insights", "page_posts"}

\* for page in accounts_response['data']: if page['id'] == page_id
RECURSIVE FindPage(_, _)
FindPage(listing, page_id) ==
    IF listing = <<>> THEN <<>>
    ELSE IF Head(listing).id = page_id THEN <<Head(listing).access_token>>
    ELSE FindPage(Tail(listing), page_id)

\* variant: a page that is not listed gets the token of the first page
GetPageAccessToken_FirstPage(page_id, outcome, listing) ==
    IF outcome # "data" THEN [token |-> <<>>, raised |-> TRUE]
    ELSE IF FindPage(listing, page_id) # <<>>
    THEN [token |-> FindPage(listing, page_id), raised |-> FALSE]
    ELSE IF listing # <<>>
    THEN [token |-> <<listing[1].access_token>>, raised |-> FALSE]
    ELSE [token |-> <<>>, raised |-> TRUE]

\* _get_page_access_token: the token, or ValueError
GetPageAccessToken(page_id, outcome, listing) ==
    IF outcome # "data" THEN [token |-> <<>>, raised |-> TRUE]
    ELSE IF FindPage(listing, page_id) # <<>>
    THEN [token |-> FindPage(listing, page_id), raised |-> FALSE]
    ELSE [token |-> <<>>, raised |-> TRUE]

\* cache key of an operation on a page
PageKey(op, page_id) == op \o "_" \o page_id

\* what the operation returns: get_page_posts raises ValueError where the
\* other two return None; it also raises on an empty listing of posts
OpResult(op, resolved, up) ==
    IF resolved /\ up = "data" THEN "data"
    ELSE IF op = "page_posts" THEN "ValueError"
    ELSE None

\* requests sent with the page token: the insights or posts request, and for
\* get_page_posts one more for the post it lists
OpRequests(op, resolved, up) ==
    IF ~resolved THEN 0
    ELSE IF op = "page_posts" /\ up = "data" THEN 2
    ELSE 1

\* whether the operation stores what it fetched
OpStores(op, resolved, up) ==
    resolved /\ up = "data" /\ op # "post_insights"

\* one of the three operations on a page, from the token resolution on
TokenOp(op, page_id, outcome, listing, up) ==
    /\ pages.op = None
    /\ outcome # "data" => listing = <<>>
    /\ LET t == GetPageAccessToken(page_id, outcome, listing)
           resolved == ~t.raised
       IN /\ ~resolved => up = "fail"
          /\ pages' = [op |-> op, page_id |-> page_id, outcome |-> outcome,
                       listing |-> listing, token |-> t.token,
                       token_raised |-> t.raised,
                       listing_requests |-> IF outcome = "no_response" THEN 3 ELSE 1,
                       requests |-> OpRequests(op, resolved, up),
                       result |-> OpResult(op, resolved, up)]
          /\ IF OpStores(op, resolved, up)
             THEN /\ cache' = SetCachedData(cache, PageKey(op, page_id), "data", now)
                  /\ written' = [k \in DOMAIN written \cup {PageKey(op, page_id)} |->
                                    IF k = PageKey(op, page_id)
                                    THEN [at |-> now, payload |-> "data"]
                                    ELSE written[k]]
             ELSE UNCHANGED <<cache, written>>
    /\ UNCHANGED <<now, readKey, readAt, readResult, limVars, getVars, facade,
                   keyreq, trend, best, media>>

----------------------------------------------------------------------------
(* InstagramAnalytics.get_media_insights as a process: the pagination loop,
   then one _process_media_item per item on the thread pool, then the sort
   and the cache write.  A media item is "good" (it has its insights) or
   "broken" (no insights, or a field whose access raises); its timestamp is
   its position in all_media.  Time is kept as the time since the latest
   request of a worker, in steps of half a second, saturated at 1 s. *)

max_workers == 5
PageBatch == 25

NoMedia ==
    [pc |-> "idle", limit |-> 0, all_media |-> <<>>, next_page |-> FALSE,
     page_requests |-> 0, status |-> <<>>, insights |-> <<>>, result |-> <<>>,
     timeouts |-> {}, since_request |-> Sec(1), worker_requests |-> 0,
     gap |-> Sec(1)]

\* lines 198-207 on a cache miss
MediaStart(limit) ==
    /\ media.pc = "idle"
    /\ media.limit = 0
    /\ media' = [media EXCEPT !.pc = "paging", !.limit = limit]
    /\ UNCHANGED <<limVars, getVars, cacheVars, facade, keyreq, trend, best, pages>>

\* lines 209-228, one round: a page request and its answer (ok: a JSON
\* object without 'error'; items: its 'data'; after: it has a next cursor).
\* The loop is left on a failed page, on a page without cursor, or -- at
\* the next test of the while condition -- with limit items.
FetchPage(ok, items, after) ==
    /\ media.pc = "paging"
    /\ media.page_requests < MaxPageRequests
    /\ Len(items) <= Min(PageBatch, media.limit - Len(media.all_media))
    /\ ~ok => (items = <<>> /\ ~after)
    /\ LET all_media == IF ok THEN media.all_media \o items ELSE media.all_media
       IN media' = [media EXCEPT
                       !.page_requests = @ + 1,
                       !.all_media = all_media,
                       !.next_page = ok /\ after,
                       !.pc = IF ~ok \/ ~after \/ Len(all_media) >= media.limit
                              THEN "processing" ELSE "paging",
                       !.status = [i \in 1..Len(all_media) |-> "queued"]]
    /\ UNCHANGED <<limVars, getVars, cacheVars, facade, keyreq, trend, best, pages>>

\* a free worker of the pool takes item i
WorkerTakes(i) ==
    /\ media.pc = "processing"
    /\ media.status[i] = "queued"
    /\ Cardinality({j \in 1..Len(media.status) :
                        media.status[j] \in {"running", "requested"}}) < max_workers
    /\ media' = [media EXCEPT !.status[i] = "running"]
    /\ UNCHANGED <<limVars, getVars, cacheVars, facade, keyreq, trend, best, pages>>

\* lines 277-283: the worker of a good item sends the permalink request
\* through _make_request, which sends it at once (lines 23-35; its retries
\* after a failure are one second apart and are not followed here)
WorkerRequests(i) ==
    /\ media.pc = "processing"
    /\ media.status[i] = "running"
    /\ media.all_media[i] = "good"
    /\ media' = [media EXCEPT
                    !.status[i] = "requested",
                    !.worker_requests = Min(@ + 1, 2),
                    !.gap = media.since_request,
                    !.since_request = 0]
    /\ UNCHANGED <<limVars, getVars, cacheVars, facade, keyreq, trend, best, pages>>

\* variant: an item whose permalink request timed out is dropped
ItemResult_NeedsPermalink(i, kind, permalink) ==
    IF kind = "good" /\ permalink = "ok" THEN <<i>> ELSE <<>>

\* what _process_media_item returns for item i: the item's dict, or None
ItemResult(i, kind, permalink) ==
    IF kind = "good" THEN <<i>> ELSE <<>>

\* lines 236-244: the future of item i completes and its result, if any, is
\* appended
WorkerFinishes(i, permalink) ==
    /\ media.pc = "processing"
    /\ \/ media.status[i] = "requested"
       \/ media.status[i] = "running" /\ media.all_media[i] = "broken"
                                       /\ permalink = "timeout"
    /\ media' = [media EXCEPT
                    !.status[i] = "finished",
                    !.timeouts = IF media.status[i] = "requested" /\ permalink = "timeout"
                                 THEN @ \cup {i} ELSE @,
                    !.insights = @ \o ItemResult(i, media.all_media[i], permalink)]
    /\ UNCHANGED <<limVars, getVars, cacheVars, facade, keyreq, trend, best, pages>>

\* half a second passes
MediaTick ==
    /\ media.pc = "processing"
    /\ media.since_request < Sec(1)
    /\ media' = [media EXCEPT !.since_request = Min(@ + Sec(1) \div 2, Sec(1))]
    /\ UNCHANGED <<limVars, getVars, cacheVars, facade, keyreq, trend, best, pages>>

\* insights.sort(key=timestamp, reverse=True)
RECURSIVE SortDescending(_)
SortDescending(xs) ==
    IF xs = <<>> THEN <<>>
    ELSE LET m == MaxOf(xs)
             rest == SelectSeq(xs, LAMBDA x : x # m)
         IN SelectSeq(xs, LAMBDA x : x = m) \o SortDescending(rest)

\* f"media_insights_{instagram_id}_{limit}"
MediaKey(limit) == "media_insights_2_" \o ToString(limit)

\* lines 246-254: every future is done; sort, store, return
MediaReturns ==
    /\ media.pc = "processing"
    /\ \A i \in 1..Len(media.status) : media.status[i] = "finished"
    /\ media' = [media EXCEPT !.pc = "done",
                              !.result = SortDescending(media.insights)]
    /\ cache' = SetCachedData(cache, MediaKey(media.limit),
                              IF media.insights = <<>> THEN "empty_list"
                              ELSE "media_list", now)
    /\ written' = [k \in DOMAIN written \cup {MediaKey(media.limit)} |->
                      IF k = MediaKey(media.limit)
                      THEN [at |-> now,
                            payload |-> IF media.insights = <<>> THEN "empty_list"
                                        ELSE "media_list"]
                      ELSE written[k]]
    /\ UNCHANGED <<now, readKey, readAt, readResult, limVars, getVars, facade,
                   keyreq, trend, best, pages>>

----------------------------------------------------------------------------
(* Specifications *)

\* FacebookAnalytics.__init__ and FacebookRateLimiter.__init__; the limiter is
\* as the token verification of the constructor leaves it when it got a clean
\* answer at once and the first caller arrives 5 s or more later
Init ==
    /\ rate_limiter = NewRateLimiter
    /\ spacing = MaxInterval
    /\ wait_time = 0
    /\ wait_attempt = -1
    /\ pc = "idle"
    /\ max_retries = 0
    /\ attempt = 0
    /\ outcomes = <<>>
    /\ httpCalls = 0
    /\ rlHandled = <<>>
    /\ backoffSleeps = 0
    /\ successUpdates = 0
    /\ sent = None
    /\ result = None
    /\ logged = "none"
    /\ now = 0
    /\ cache = <<>>
    /\ written = [k \in AllKeys |-> [at |-> -1, payload |-> None]]
    /\ readKey = None
    /\ readAt = 0
    /\ readResult = None
    /\ facade = [n |-> 0, op |-> None, key |-> None, upstream |-> FALSE,
                 fetched |-> None, result |-> None]
    /\ keyreq = [n |-> 0, req |-> NoRequest, key |-> <<>>,
                 prevreq |-> NoRequest, prevkey |-> <<>>]
    /\ trend = NoTrend
    /\ best = [platform |-> None, posts |-> <<>>,
               hourly_data |-> EmptyHourlyData, result |-> <<>>]
    /\ media = NoMedia
    /\ pages = [op |-> None, page_id |-> None, outcome |-> None, listing |-> <<>>,
                token |-> <<>>, token_raised |-> FALSE, listing_requests |-> 0,
                requests |-> 0, result |-> None]

\* the retrying client over its limiter
Next ==
    \/ \E m \in 0..MaxRetries, gap \in IdleGaps : StartGet(m, gap)
    \/ \E o \in Outcomes, lat \in Latencies, j \in Jitters : AttemptRateLimited(o, lat, j)
    \/ \E o \in Outcomes, lat \in Latencies : AttemptTerminalError(o, lat)
    \/ \E o \in Outcomes, lat \in Latencies, j \in Jitters : AttemptGenericError(o, lat, j)
    \/ \E o \in Outcomes, j \in Jitters : AttemptNetworkError(o, j)
    \/ \E p \in Payloads, lat \in Latencies : AttemptSuccess(p, lat)

Spec == Init /\ [][Next]_vars

\* one limiter under every interleaving of its operations
NextLimiter ==
    \/ \E gap \in IdleGaps \cup Latencies : LimWait(gap)
    \/ \E a \in 0..MaxAttemptArg, j \in Jitters : LimRateLimitError(a, j)
    \/ LimSuccess

SpecLimiter == Init /\ [][NextLimiter]_vars

\* the response cache under every interleaving of reads, writes and time
NextCache ==
    \/ \E k \in Keys : CacheGet(k)
    \/ \E k \in Keys, d \in CachePayloads : CacheSet(k, d)
    \/ \E d \in Ticks : Tick(d)

SpecCache == Init /\ [][NextCache]_vars

\* the facade operations over the cache, with time passing between them
NextFacade ==
    \/ \E up \in UpstreamResults : GetPageInsights(up)
    \/ \E up \in UpstreamResults : GetPostInsights(up)
    \/ \E up \in UpstreamResults : GetMediaInsights(up)
    \/ \E up \in UpstreamResults : GetAccountInfo(up)
    \/ \E d \in FacadeTicks : Tick(d)

SpecFacade == Init /\ [][NextFacade]_vars

\* the key builders, called with every request
NextKey ==
    \E r \in Requests : BuildKey(r)

SpecKey == Init /\ [][NextKey]_vars

\* one follower trend request
NextTrend ==
    \/ \E days \in 1..MaxDays, current_followers \in Currents :
          IgTrend(days, current_followers)
    \/ \E values \in SeqsUpTo(FbValues, MaxLen),
          fan_adds \in FanAdds, fan_removes \in FanRemoves :
          FbTrend(values, fan_adds, fan_removes)

SpecTrend == Init /\ [][NextTrend]_vars

\* one Facebook trend request answered with counts near the thresholds
NextFlat ==
    \E counts \in SeqsUpTo(BoundaryCounts, MaxLen) :
        FbTrend(DailyValues(counts), <<>>, <<>>)

SpecFlat == Init /\ [][NextFlat]_vars

\* one follower trend request over an upstream that may fail
NextUpstream ==
    \/ \E token \in TokenOutcomes, post \in PostOutcomes,
          codes \in [1..3 -> SubCodes], values \in BatchFans,
          fan_adds \in FanAdds, fan_removes \in FanRemoves :
          FbTrendUpstream(token, post, codes, values, fan_adds, fan_removes)
    \/ \E days \in 1..MaxDays, account \in {"ok", "failed"},
          followers_count \in Currents, insights \in InsightsOutcomes,
          values \in InsightsValues :
          IgTrendUpstream(days, account, followers_count, insights, values)

SpecUpstream == Init /\ [][NextUpstream]_vars

\* one get_best_times call
NextBest ==
    \E platform \in {"instagram", "facebook"}, posts \in SeqsUpTo(Posts, MaxPosts) :
        GetBestTimes(platform, posts)

SpecBest == Init /\ [][NextBest]_vars

\* one operation that resolves a page token first
NextToken ==
    \E op \in TokenOps, page_id \in PageIds, outcome \in ListingOutcomes,
       listing \in SeqsUpTo(PageEntries, MaxPages), up \in UpstreamResults :
        TokenOp(op, page_id, outcome, listing, up)

SpecToken == Init /\ [][NextToken]_vars

\* one get_media_insights call
NextMedia ==
    \/ \E limit \in 1..MaxLimit : MediaStart(limit)
    \/ \E ok \in BOOLEAN, items \in SeqsUpTo({"good", "broken"}, MaxLimit), after \in BOOLEAN :
          FetchPage(ok, items, after)
    \/ \E i \in 1..Len(media.status) :
          \/ WorkerTakes(i)
          \/ WorkerRequests(i)
          \/ \E permalink \in {"ok", "timeout"} : WorkerFinishes(i, permalink)
    \/ MediaTick
    \/ MediaReturns

SpecMedia == Init /\ [][NextMedia]_vars

\* a running get always proceeds to its next response; whether the caller
\* starts further gets is left open
AttemptStep ==
    \/ \E o \in Outcomes, lat \in Latencies, j \in Jitters : AttemptRateLimited(o, lat, j)
    \/ \E o \in Outcomes, lat \in Latencies : AttemptTerminalError(o, lat)
    \/ \E o \in Outcomes, lat \in Latencies, j \in Jitters : AttemptGenericError(o, lat, j)
    \/ \E o \in Outcomes, j \in Jitters : AttemptNetworkError(o, j)
    \/ \E p \in Payloads, lat \in Latencies : AttemptSuccess(p, lat)

SpecLive == Init /\ [][Next]_vars /\ WF_vars(AttemptStep)

----------------------------------------------------------------------------
(* Properties *)

Last(q) == q[Len(q)]
Failed == pc = "done" /\ (outcomes = <<>> \/ Last(outcomes) # "ok")
RateLimitClasses == {"rate_limit_http", "rate_limit_code"}

\* C1: when the first response of a get carries a terminal embedded error
\* (credential codes 190/102, parameter codes 100/803), the get is over after
\* exactly one HTTP call: it failed, nothing was retried and no backoff sleep
\* was made, whatever max_retries >= 1 is.
C1_TerminalErrorSingleCall ==
    (outcomes # <<>> /\ outcomes[1] \in {"auth", "param"}) =>
        /\ pc = "done"
        /\ result = None
        /\ httpCalls = 1
        /\ Len(outcomes) = 1
        /\ attempt = 0
        /\ backoffSleeps = 0
        /\ rlHandled = <<>>

C1_Witness ==
    /\ pc = "done"
    /\ max_retries = 3
    /\ outcomes = <<"param">>
    /\ httpCalls = 1

\* C2: a get never issues more than max_retries HTTP requests, a running get
\* still has budget left, and once the budget is used up the get has
\* terminated with a payload or a failure.
C2_AttemptBudget ==
    /\ httpCalls <= max_retries
    /\ (pc = "attempt" => attempt < max_retries /\ httpCalls = attempt)
    /\ (httpCalls = max_retries /\ pc # "idle" => pc = "done")
    /\ (pc = "done" => result \in Payloads \cup {None})

C2_Witness ==
    /\ pc = "done"
    /\ max_retries = 3
    /\ httpCalls = 3
    /\ outcomes = <<"timeout", "rate_limit_http", "generic">>
    /\ result = None

\* C3: with max_retries = 3, rate-limit outcomes on attempts 0 and 1 and a
\* clean success on attempt 2 make exactly 3 HTTP calls, pass attempt indices
\* 0 and 1 to the rate-limit handler, apply the success update once and
\* return the payload.
C3_TwoRateLimitsThenSuccess ==
    (/\ pc = "done"
     /\ max_retries = 3
     /\ Len(outcomes) = 3
     /\ outcomes[1] \in RateLimitClasses
     /\ outcomes[2] \in RateLimitClasses
     /\ outcomes[3] = "ok") =>
        /\ httpCalls = 3
        /\ rlHandled = <<0, 1>>
        /\ successUpdates = 1
        /\ result \in Payloads
        /\ result = sent

C3_Witness ==
    /\ pc = "done"
    /\ max_retries = 3
    /\ outcomes = <<"rate_limit_http", "rate_limit_code", "ok">>
    /\ result = "page_data"

\* C4: every handle_rate_limit_error leaves min_interval no smaller and at
\* most 5 s, every other limiter update (the success update included) leaves
\* it no larger and at least 1 s; 1 s <= min_interval <= 5 s in every state.
C4_IntervalMonotoneBounded ==
    /\ [](rate_limiter.min_interval >= 1000 /\ rate_limiter.min_interval <= 5000)
    /\ [][/\ (rate_limiter'.rate_limit_errors > rate_limiter.rate_limit_errors =>
                 /\ rate_limiter'.min_interval >= rate_limiter.min_interval
                 /\ rate_limiter'.min_interval <= 5000)
          /\ (rate_limiter'.rate_limit_errors <= rate_limiter.rate_limit_errors =>
                 /\ rate_limiter'.min_interval <= rate_limiter.min_interval
                 /\ rate_limiter'.min_interval >= 1000)]_vars

\* 4500 ms is 5 s decayed once: the ceiling was hit, then a success followed
C4_Witness ==
    /\ rate_limiter.min_interval = 4500
    /\ rate_limiter.rate_limit_errors = 3

\* C5: every clean response returned by the client sets the error count to
\* max(0, count - 1) and min_interval to max(1 s, 0.9 * min_interval), also
\* when the count is already 0 and min_interval is above 1 s.
C5_SuccessAlwaysDecays ==
    [][(pc = "attempt" /\ pc' = "done" /\ result' \in Payloads) =>
          /\ rate_limiter'.rate_limit_errors = Max(0, rate_limiter.rate_limit_errors - 1)
          /\ rate_limiter'.min_interval = Max(1000, (rate_limiter.min_interval * 9) \div 10)]_vars

\* C6: if gets keep being attempted and from some point on every response is
\* a clean success, min_interval comes back to its 1 s floor.
C6_DecaysToFloor ==
    (/\ []<>(pc = "attempt")
     /\ <>[](\A i \in 1..Len(outcomes) : outcomes[i] = "ok"))
        => []<>(rate_limiter.min_interval = 1000)

\* C7: handle_rate_limit_error(a) sleeps between min(60 s, 2^a s) and
\* min(60 s, 2^a s) + 1 s.
C7_BackoffBound ==
    wait_attempt >= 0 =>
        /\ wait_time >= (IF Pow(2, wait_attempt) * 1000 > 60000
                         THEN 60000 ELSE Pow(2, wait_attempt) * 1000)
        /\ wait_time <= (IF Pow(2, wait_attempt) * 1000 > 60000
                         THEN 60000 ELSE Pow(2, wait_attempt) * 1000) + 1000

\* 2^6 s exceeds the cap: 60 s plus the full jitter
C7_Witness ==
    /\ wait_attempt = 6
    /\ wait_time = 61000

\* C8: every return of wait_if_needed records the new call time, at least
\* min_interval (the value in force at that call) after the call time
\* recorded before it.
C8_CallSpacing ==
    [][(\E gap \in IdleGaps \cup Latencies : LimWait(gap)) =>
          /\ rate_limiter'.since_last_call = 0
          /\ spacing' >= rate_limiter.min_interval]_vars

\* the caller came back 1 s after its last call while min_interval was 1.5 s
C8_Witness ==
    /\ rate_limiter.since_last_call = 0
    /\ rate_limiter.min_interval = 1500
    /\ spacing = 1500

\* the typed failure the class of the last outcome would call for
ExpectedFailure ==
    IF outcomes = <<>> THEN "RetriesExhausted"
    ELSE CASE Last(outcomes) = "auth" -> "AuthError"
           [] Last(outcomes) = "param" -> "InvalidRequest"
           [] Last(outcomes) \in RateLimitClasses -> "RateLimited"
           [] Last(outcomes) \in {"timeout", "request_exception"} -> "NetworkError"
           [] OTHER -> "UpstreamError"

C10_CacheTtl ==
    [][\A k \in Keys :
          CacheGet(k) =>
              readResult' = (IF written[k].at >= 0 /\ now - written[k].at < 300000
                             THEN written[k].payload
                             ELSE None)]_vars

\* a read exactly 300 s after the write
C10_Witness ==
    /\ readKey \in Keys
    /\ written[readKey].at >= 0
    /\ readAt - written[readKey].at = 300000
    /\ readResult = None

\* C11: every fetch operation that finds a fresh entry under its key returns
\* that entry's payload, whatever it is, without an upstream call; and a
\* successful upstream fetch leaves its payload stored under the key.
C11_CacheFirst ==
    [][(facade'.n = facade.n + 1) =>
          /\ (Fresh(cache, facade'.key, now) =>
                 /\ ~facade'.upstream
                 /\ facade'.result = cache[facade'.key].data)
          /\ (facade'.fetched = "data" =>
                 /\ Fresh(cache', facade'.key, now')
                 /\ cache'[facade'.key].data = facade'.result)]_vars


\* C12: two requests that differ in a component (endpoint, account id,
\* metric list, period, since, until) never get the same cache key.
C12_KeyInjective ==
    (keyreq.n = 2 /\ keyreq.prevreq # keyreq.req) => keyreq.prevkey # keyreq.key


\* C13: the counts reconstructed from the daily changes d[1..n] and the
\* current total C have one point per date, end with C, and each point is
\* its successor minus the successor's change.
C13_DeltaReconstruction ==
    trend.branch = "reconstructed" =>
        LET n == Len(trend.values) IN
        /\ Len(trend.counts) = n
        /\ Len(trend.dates) = n
        /\ \A i \in 1..n : trend.dates[i] = DateOf(trend.values[i].end_time)
        /\ trend.counts[n] = trend.current
        /\ \A i \in 1..(n - 1) :
              trend.counts[i] = trend.counts[i + 1] - trend.values[i + 1].value

C13_Witness ==
    /\ trend.branch = "reconstructed"
    /\ Len(trend.values) = 3
    /\ trend.values[2].value # trend.values[3].value
    /\ trend.counts[1] # trend.counts[3]


\* C14: the enhancement of a flat series of two or more points has as many
\* points as the observed series, and its first and last points are the
\* observed first and last points.
C14_EnhancementAnchoring ==
    (trend.branch = "enhanced" /\ Len(trend.observed.counts) >= 2) =>
        LET n == Len(trend.observed.counts) IN
        /\ Len(trend.counts) = n
        /\ trend.counts[1] = trend.observed.counts[1]
        /\ trend.counts[n] = trend.observed.counts[n]

C14_Witness ==
    /\ trend.branch = "enhanced"
    /\ Len(trend.observed.counts) = 3
    /\ trend.observed.counts[1] # trend.observed.counts[3]
    /\ trend.counts[2] # trend.observed.counts[2]
    /\ Sum(trend.fan_adds) - Sum(trend.fan_removes) < 0


C16_EnhancedEnvelope ==
    trend.branch = "enhanced" =>
        \A i \in 1..Len(trend.counts) :
            /\ trend.counts[i] >= MinOf(trend.observed.counts) - 5
            /\ trend.counts[i] <= MaxOf(trend.observed.counts) + 10

\* an enhanced series whose raw interior point fell below the envelope
C16_Witness ==
    /\ trend.branch = "enhanced"
    /\ Len(trend.counts) = 3
    /\ trend.counts[2] = MinOf(trend.observed.counts) - 5
    /\ trend.observed.counts[1]
         + int((Sum(trend.fan_adds) - Sum(trend.fan_removes)) * 1, 2)
         + trend.jits[1] < MinOf(trend.observed.counts) - 5


\* C17 as stated: every interior point of an enhanced series is
\* clamp(first + floor(netChange * i / (len - 1)) + j, min - 5, max + 10)
\* for a jitter j in -2..2, for negative netChange too.  (\div rounds down.)
C17_InteriorFloor ==
    trend.branch = "enhanced" =>
        LET c == trend.observed.counts
            n == Len(c)
            netChange == Sum(trend.fan_adds) - Sum(trend.fan_removes)
        IN \A i \in 1..(n - 2) :
              \E j \in -2..2 :
                 trend.counts[i + 1] =
                    Min(Max(c[1] + ((netChange * i) \div (n - 1)) + j,
                            MinOf(c) - 5),
                        MaxOf(c) + 10)

\* C17: every interior point of an enhanced series is
\* clamp(first + t + j, min - 5, max + 10) for a jitter j in -2..2, where t is
\* netChange * i / (len - 1) with its fraction dropped (rounded toward zero).
C17_InteriorTruncated ==
    trend.branch = "enhanced" =>
        LET c == trend.observed.counts
            n == Len(c)
            netChange == Sum(trend.fan_adds) - Sum(trend.fan_removes)
            t(i) == IF netChange >= 0
                    THEN (netChange * i) \div (n - 1)
                    ELSE -((-netChange * i) \div (n - 1))
        IN \A i \in 1..(n - 2) :
              \E j \in -2..2 :
                 trend.counts[i + 1] =
                    Min(Max(c[1] + t(i) + j, MinOf(c) - 5), MaxOf(c) + 10)

\* an interior point computed from a negative net change that does not
\* divide evenly, and not clamped
C17_Witness ==
    /\ trend.branch = "enhanced"
    /\ Len(trend.counts) = 3
    /\ Sum(trend.fan_adds) - Sum(trend.fan_removes) = -7
    /\ trend.counts[2] = trend.observed.counts[1] - 3 + trend.jits[1]
    /\ trend.counts[2] > MinOf(trend.observed.counts) - 5


\* C18: when the observed series is not flat (its variation is at least 10
\* and at least 2 percent of the mean), the Facebook trend returns the
\* observed dates and counts as they are: the first value of each date of
\* the answer, in the order of the answer.
C18_OriginalUnmodified ==
    (trend.platform = "facebook" /\ trend.branch # "empty") =>
        LET c == trend.observed.counts
            variation == MaxOf(c) - MinOf(c)
        IN (variation >= 10 /\ Sum(c) > 0
              /\ variation * 100 * Len(c) >= 2 * Sum(c)) =>
              /\ trend.dates = trend.observed.dates
              /\ trend.counts = c
              /\ \A i \in 1..Len(c) :
                    \E k \in 1..Len(trend.values) :
                       /\ DateOf(trend.values[k].end_time) = trend.dates[i]
                       /\ trend.values[k].value = trend.counts[i]
                       /\ \A m \in 1..(k - 1) :
                             DateOf(trend.values[m].end_time) # trend.dates[i]
              /\ \A k \in 1..Len(trend.values) :
                    Member(DateOf(trend.values[k].end_time), trend.dates)

\* a returned series of three differing points, with activity to enhance by
C18_Witness ==
    /\ trend.platform = "facebook"
    /\ trend.branch = "original"
    /\ Len(trend.counts) = 3
    /\ trend.counts[2] = 120
    /\ trend.fan_adds # <<>>


\* C19 as stated: the synthesized series has one point per day, every point
\* lies between start = max(current - 2 * days, 0.95 * current) and current,
\* and the last point is current.  (Counts are in hundredths.)
C19_SynthesizedWithinRamp ==
    trend.branch = "synthesized" =>
        LET start == Max(100 * (trend.current - 2 * trend.days), 95 * trend.current)
        IN /\ Len(trend.counts) = trend.days
           /\ Len(trend.dates) = trend.days
           /\ \A i \in 1..trend.days :
                 start <= trend.counts[i] /\ trend.counts[i] <= 100 * trend.current
           /\ trend.counts[trend.days] = 100 * trend.current

\* C19: the synthesized series has one point per day, every point is at
\* least start = max(current - 2 * days, 0.95 * current) and at most
\* current + 2, and the last point is current.  (Counts are in hundredths.)
C19_SynthesizedNearRamp ==
    trend.branch = "synthesized" =>
        LET start == Max(100 * (trend.current - 2 * trend.days), 95 * trend.current)
        IN /\ Len(trend.counts) = trend.days
           /\ Len(trend.dates) = trend.days
           /\ \A i \in 1..trend.days :
                 start <= trend.counts[i] /\ trend.counts[i] <= 100 * (trend.current + 2)
           /\ trend.counts[trend.days] = 100 * trend.current

\* a synthesized series with a point above the current total and a point
\* held at start
C19_Witness ==
    /\ trend.branch = "synthesized"
    /\ trend.days = 3
    /\ trend.counts[2] > 100 * trend.current
    /\ trend.counts[1] = Max(100 * (trend.current - 2 * trend.days), 95 * trend.current)
    /\ trend.jits[3] # 0


\* C20: every non-empty trend, of either platform, has as many dates as
\* counts, and its dates are strictly increasing (so no date occurs twice).
C20_DatesStrictlyIncreasing ==
    trend.dates # <<>> =>
        /\ Len(trend.dates) = Len(trend.counts)
        /\ \A i \in 1..(Len(trend.dates) - 1) : trend.dates[i] < trend.dates[i + 1]


\* C21: a trend request whose upstream failed (token resolution, the POST,
\* the account lookup, the insights request, or the page_fans sub-response)
\* returns the empty series, and a non-empty series is returned only when
\* values for the window were obtained from upstream.
C21_FailureGivesEmptySeries ==
    trend.platform # None =>
        LET up == trend.upstream
            failed == \/ up.token # "ok" \/ up.post # "ok" \/ up.codes[1] # 200
                      \/ up.account # "ok" \/ up.insights # "ok"
        IN /\ failed => (trend.dates = <<>> /\ trend.counts = <<>>)
           /\ trend.dates # <<>> => (~failed /\ trend.values # <<>>)


\* C24: when the token and the batch POST are fine, the trend is served from
\* the sub-responses that have code 200, whatever the codes of the others:
\* the request does not fail, the page_fans values of a 200 sub-response give
\* the dates, and the net change of an enhanced series is the sum of the
\* adds that arrived less the sum of the removes that arrived.
C24_BatchDemultiplexed ==
    (trend.platform = "facebook" /\ trend.upstream.token = "ok"
        /\ trend.upstream.post = "ok") =>
        LET codes == trend.upstream.codes
            net == (IF codes[2] = 200 THEN Sum(trend.fan_adds) ELSE 0)
                     - (IF codes[3] = 200 THEN Sum(trend.fan_removes) ELSE 0)
            c == trend.observed.counts
        IN /\ trend.branch # "error"
           /\ (codes[1] = 200 /\ trend.values # <<>>) =>
                 /\ trend.branch \in {"enhanced", "original"}
                 /\ Len(trend.dates) = Len(trend.values)
                 /\ \A i \in 1..Len(trend.dates) :
                       trend.dates[i] = DateOf(trend.values[i].end_time)
           /\ codes[1] # 200 => trend.branch = "empty"
           /\ (trend.branch = "enhanced" /\ Len(c) = 3) =>
                 trend.counts[2] =
                    Min(Max(c[1] + (IF net >= 0 THEN net \div 2 ELSE -((-net) \div 2))
                              + trend.jits[1],
                            MinOf(c) - 5),
                        MaxOf(c) + 10)

\* the removes sub-response failed, and the trend was enhanced by the adds
C24_Witness ==
    /\ trend.platform = "facebook"
    /\ trend.upstream.codes = <<200, 200, 400>>
    /\ trend.branch = "enhanced"
    /\ trend.fan_adds = <<10, 20>>
    /\ trend.counts[2] = 113


\* C22: get_best_times returns the 24 keys 0..23 for every list of posts;
\* an hour that no processed post falls in reports post_count 0 and zero
\* statistics (so every bucket is zero for the empty list).
C22_HourlyCompleteness ==
    best.platform # None =>
        /\ DOMAIN best.result = 0..23
        /\ \A h \in 0..23 :
              (\A i \in 1..Len(best.posts) :
                  \/ best.posts[i].timestamp = <<>>
                  \/ ~best.posts[i].timestamp[1].parses
                  \/ best.posts[i].timestamp[1].hour # h) =>
                 /\ best.result[h].post_count = 0
                 /\ best.result[h].engagement_rate = 0
                 /\ best.result[h].avg_engagement = 0

\* C28: after any list of posts, every hour bucket has as many engagement
\* samples as its post count, and on Instagram as many reach samples too.
C28_BucketConsistency ==
    best.platform # None =>
        \A h \in 0..23 :
            /\ Len(best.hourly_data[h].engagement) = best.hourly_data[h].posts
            /\ best.platform = "instagram" =>
                  Len(best.hourly_data[h].reach) = best.hourly_data[h].posts


\* C23: when the accounts listing arrived and no page of it has the requested
\* id, the token resolution raises, the listing was requested once, and the
\* operation sends no request for the page.
C23_TokenResolutionHardFailure ==
    (pages.op # None /\ pages.outcome = "data"
        /\ \A i \in 1..Len(pages.listing) : pages.listing[i].id # pages.page_id) =>
        /\ pages.token_raised
        /\ pages.token = <<>>
        /\ pages.listing_requests = 1
        /\ pages.requests = 0
        /\ pages.result # "data"

\* a listing of two other pages
C23_Witness ==
    /\ pages.op = "page_insights"
    /\ pages.outcome = "data"
    /\ Len(pages.listing) = 2
    /\ pages.page_id = "1"
    /\ \A i \in 1..2 : pages.listing[i].id # "1"
    /\ pages.result = None


\* C25: any two requests that workers of the pool send one after the other
\* are at least the limiter's interval apart.
C25_GlobalCallSpacing ==
    media.worker_requests >= 2 => media.gap >= InitialMinInterval

Count(xs, x) == Len(SelectSeq(xs, LAMBDA y : y = x))

\* C26: when get_media_insights has returned, every item that was processed
\* successfully is in the result exactly once, whether or not its permalink
\* request timed out, and no failed item is; the result is newest first.
C26_PartialResults ==
    /\ \A i \in 1..Len(media.insights) : Count(media.insights, media.insights[i]) = 1
    /\ media.pc = "done" =>
          /\ \A i \in 1..Len(media.all_media) :
                Count(media.result, i) = IF media.all_media[i] = "good" THEN 1 ELSE 0
          /\ \A j \in 1..Len(media.result) :
                /\ media.result[j] \in 1..Len(media.all_media)
                /\ j > 1 => media.result[j - 1] > media.result[j]

\* a broken item, and a good one whose permalink request timed out
C26_Witness ==
    /\ media.pc = "done"
    /\ media.all_media = <<"broken", "good">>
    /\ media.timeouts = {2}
    /\ media.result = <<2>>

\* C29: get_media_insights sends at most limit page requests.
C29_BoundedPageRequests ==
    media.page_requests <= media.limit


\* the branches of the loop body that are no rate-limit signal and no success
NonAdaptiveClasses == {"timeout", "request_exception", "auth", "param", "generic"}

\* C27: an attempt that ends in a timeout, a connection or HTTP error, a
\* terminal application error or a generic application error leaves
\* min_interval and rate_limit_errors as they were.
C27_FailuresLeaveLimiterState ==
    [][(Len(outcomes') = Len(outcomes) + 1
          /\ outcomes'[Len(outcomes')] \in NonAdaptiveClasses) =>
         /\ rate_limiter'.min_interval = rate_limiter.min_interval
         /\ rate_limiter'.rate_limit_errors = rate_limiter.rate_limit_errors]_vars

\* a generic error after a rate-limit response, the limiter still raised
C27_Witness ==
    /\ Len(outcomes) = 2
    /\ outcomes[1] = "rate_limit_http"
    /\ outcomes[2] = "generic"
    /\ pc = "attempt"
    /\ rate_limiter.rate_limit_errors = 1
    /\ rate_limiter.min_interval > InitialMinInterval


\* the request for the follower data itself failed
TrendFetchFailed(platform, up) ==
    IF platform = "facebook"
    THEN up.token # "ok" \/ up.post # "ok" \/ up.codes[1] # 200
    ELSE up.insights # "ok"

\* C30: a follower-trend call whose upstream request failed leaves the cache
\* as it was.
C30_FailedFetchLeavesCache ==
    [][(trend.platform = None /\ trend'.platform # None
          /\ TrendFetchFailed(trend'.platform, trend'.upstream)) =>
         cache' = cache]_vars

====
